---- MODULE Spec2Model ----
(***************************************************************************)
(* TEV/AA partial-discharge sensor, Modbus RTU master.                     *)
(*                                                                         *)
(* Three specifications over one set of variables:                         *)
(*   SpecCodec  the pure frame codec of tev_waveform_test.py               *)
(*              (calculate_crc, build_read_registers_request,              *)
(*              parse_read_registers_response) applied to bounded inputs;  *)
(*   Spec       one TEVAASensor session driven by a single caller, in each *)
(*              of the three source variants (tev_aa_sensor.py,            *)
(*              tev_aa_combined.py, tev_aa_simple_gui_v2.py);              *)
(*   SpecGui    the SensorGUI of tev_aa_gui.py: the GUI thread, its poller *)
(*              threads and the TEVAASensor objects they hold.             *)
(***************************************************************************)
EXTENDS Integers, Sequences, FiniteSets, TLC

VARIABLES
    \* ---- codec (tev_waveform_test.py) ----
    cpc,          \* "input" | "parsed" | "crc": what was done last to frame
    frame,        \* the byte sequence under test
    origin,       \* how frame was produced (kind, addr, values, ...)
    pristine,     \* the frame before it was tampered with
    tamper,       \* the tampering applied to pristine to get frame
    expect,       \* register_count handed to parse_read_registers_response
    parsed,       \* what parse_read_registers_response returned / printed
    crc_out,      \* what calculate_crc(frame) returned
    main,         \* one run of main(): position, serial port, request, result
    \* ---- session (class TEVAASensor) ----
    impl,         \* which source file's TEVAASensor this session is
    device_addr,  \* self.device_addr
    connected,    \* self.connected
    port_open,    \* the client's serial port is open
    client_baud,  \* the baud rate the client's transport was built with
    last,         \* the last public call: arguments, outcome, frames sent
    regfile,      \* holding registers of a device that stores what is written
    \* ---- GUI threads (tev_aa_gui.py) ----
    gui,          \* SensorGUI: position, self.sensor (0: None), self.data_thread
    dpc,          \* DataMonitorThread position
    running,      \* DataMonitorThread.running
    dsensor,      \* DataMonitorThread.sensor
    waves,        \* the WaveformThreads started: position and .sensor of each
    sensors,      \* the TEVAASensor objects built: connected, port open
    refresh_tev_btn,  \* self.refresh_tev_btn is enabled
    outstanding,  \* requests written to the wire whose response is not read
    events        \* signals queued for the GUI thread: error_occurred, finished

codecVars == <<cpc, frame, origin, pristine, tamper, expect, parsed, crc_out, main>>
sessionVars == <<impl, device_addr, connected, port_open, client_baud, last, regfile>>
guiVars == <<gui, dpc, running, dsensor, waves, sensors, refresh_tev_btn,
             outstanding, events>>
vars == <<codecVars, sessionVars, guiVars>>

(***************************************************************************)
(* Bounds of the model.                                                    *)
(***************************************************************************)
MaxCount == 2          \* register counts 0..MaxCount in synthetic responses

(***************************************************************************)
(* Bit arithmetic on naturals (Python ints are unbounded: no width is      *)
(* imposed here, the code's own masks and shifts give the width).          *)
(***************************************************************************)
RECURSIVE BitXor(_, _)
BitXor(a, b) ==
    IF a = 0 THEN b
    ELSE IF b = 0 THEN a
    ELSE (((a % 2) + (b % 2)) % 2) + (2 * BitXor(a \div 2, b \div 2))

RECURSIVE Pow2(_)
Pow2(n) == IF n = 0 THEN 1 ELSE 2 * Pow2(n - 1)

Byte == 0..255

(***************************************************************************)
(* calculate_crc                                                           *)
(***************************************************************************)
CRC_INIT == 65535      \* 0xFFFF
CRC_POLY == 40961      \* 0xA001

\* a plausible slip: the non-reflected polynomial 0x8005 in the reflected loop
CrcShift_WrongPoly(crc) ==
    IF crc % 2 = 1 THEN BitXor(crc \div 2, 32773) ELSE crc \div 2

\* one pass of the inner loop: if crc & 1: crc = (crc >> 1) ^ 0xA001 else crc >>= 1
CrcShift(crc) ==
    IF crc % 2 = 1 THEN BitXor(crc \div 2, CRC_POLY) ELSE crc \div 2

\* for _ in range(8)
\* (x ranges over a one-element set so that each register value is computed
\* once, before the next pass)
RECURSIVE CrcBits(_, _)
CrcBits(crc, n) ==
    IF n = 0 THEN crc
    ELSE CHOOSE r \in {CrcBits(x, n - 1) : x \in {CrcShift(crc)}} : TRUE

\* crc ^= byte, then the 8 shifts
CrcByte(crc, byte) == CrcBits(BitXor(crc, byte), 8)

\* for byte in data, from index i on
RECURSIVE CrcFold(_, _, _)
CrcFold(crc, data, i) ==
    IF i > Len(data) THEN crc
    ELSE CHOOSE r \in {CrcFold(x, data, i + 1) : x \in {CrcByte(crc, data[i])}} : TRUE

\* the value of the working register crc when the loops are left
CrcRegister(data) == CrcFold(CRC_INIT, data, 1)

\* bytes([crc & 0xFF, (crc >> 8) & 0xFF])
calculate_crc(data) ==
    CHOOSE r \in {<<crc % 256, (crc \div 256) % 256>> : crc \in {CrcRegister(data)}} :
        TRUE

\* every value the working register takes: after the XOR of a byte and after
\* each of the 8 shifts, for every byte of data
RECURSIVE CrcBitsTrace(_, _)
CrcBitsTrace(crc, n) ==
    IF n = 0 THEN {crc}
    ELSE {crc} \cup UNION {CrcBitsTrace(x, n - 1) : x \in {CrcShift(crc)}}

RECURSIVE CrcTrace(_, _, _)
CrcTrace(crc, data, i) ==
    IF i > Len(data) THEN {crc}
    ELSE UNION {CrcBitsTrace(x, 8) : x \in {BitXor(crc, data[i])}}
         \cup UNION {CrcTrace(x, data, i + 1) : x \in {CrcByte(crc, data[i])}}

CrcRegisters(data) == {CRC_INIT} \cup CrcTrace(CRC_INIT, data, 1)

(***************************************************************************)
(* build_read_registers_request                                            *)
(***************************************************************************)
\* a plausible slip: '<H', the low byte first
PackH_LittleEndian(v) == <<v % 256, (v \div 256) % 256>>

\* struct.pack('>H', v): big-endian 16-bit field
PackH(v) == <<(v \div 256) % 256, v % 256>>

\* modbus_address = start_address   (line 59: the address is used as given)
RequestWireAddress(start_address) == start_address

build_read_registers_request(addr, start_address, count) ==
    LET request == <<addr, 3>> \o PackH(RequestWireAddress(start_address))
                              \o PackH(count)
    IN  request \o calculate_crc(request)

(***************************************************************************)
(* parse_read_registers_response                                           *)
(***************************************************************************)
\* what the function returns (None, or the list registers) and which message
\* it printed on the way
Rejected(msg, code) ==
    [none |-> TRUE, registers |-> <<>>, printed |-> msg, exception_code |-> code]
Accepted(regs) ==
    [none |-> FALSE, registers |-> regs, printed |-> "none", exception_code |-> -1]

\* a plausible slip: only short responses are rejected
LengthMismatch_OnlyShort(n, expected_length) == n < expected_length

\* if len(response) != expected_length
LengthMismatch(n, expected_length) == n # expected_length

\* a plausible slip: the CRC comparison is left out
CrcMismatch_Skipped(received_crc, calculated_crc) == FALSE

\* if received_crc != calculated_crc
CrcMismatch(received_crc, calculated_crc) == received_crc # calculated_crc

\* a plausible slip: low byte first
RegisterValue_LittleEndian(hi, lo) == lo * 256 + hi

\* register_value = (response[i] << 8) + response[i+1]
RegisterValue(hi, lo) == hi * 256 + lo

\* a plausible slip: range(0, byte_count, 2), the header is decoded as data
DecodeRegisters_FromFrameStart(response, byte_count) ==
    [k \in 1..((byte_count + 1) \div 2) |->
        RegisterValue(response[2 * k - 1], response[2 * k])]

\* for i in range(3, 3 + byte_count, 2), 0-based i; 1-based index 4 + 2(k-1)
DecodeRegisters(response, byte_count) ==
    [k \in 1..((byte_count + 1) \div 2) |->
        RegisterValue(response[2 * k + 2], response[2 * k + 3])]

\* a plausible slip: the function code and the byte count are not looked at
parse_read_registers_response_NoHeaderCheck(response, register_count) ==
    LET expected_length == 5 + register_count * 2
        n == Len(response)
    IN  IF LengthMismatch(n, expected_length) THEN Rejected("length", -1)
        ELSE IF response[2] = 131 THEN Rejected("exception", response[3])
        ELSE IF CrcMismatch(SubSeq(response, n - 1, n),
                            calculate_crc(SubSeq(response, 1, n - 2)))
             THEN Rejected("crc", -1)
        ELSE Accepted(DecodeRegisters(response, register_count * 2))

parse_read_registers_response(response, register_count) ==
    LET expected_length == 5 + register_count * 2
        n == Len(response)
    IN  IF LengthMismatch(n, expected_length) THEN Rejected("length", -1)
        ELSE IF response[2] = 131 THEN Rejected("exception", response[3])
        ELSE IF response[2] # 3 THEN Rejected("function_code", -1)
        ELSE IF response[3] # register_count * 2 THEN Rejected("byte_count", -1)
        ELSE IF CrcMismatch(SubSeq(response, n - 1, n),
                            calculate_crc(SubSeq(response, 1, n - 2)))
             THEN Rejected("crc", -1)
        ELSE Accepted(DecodeRegisters(response, response[3]))

(***************************************************************************)
(* Inputs of the codec: frames as the device (or the line) can deliver     *)
(* them.                                                                   *)
(***************************************************************************)
Addrs == {1, 247}
RegValues == {0, 258, 65535}
ExcCodes == {1, 2}
StartAddresses == {200, 201, 5003}
RequestCounts == {1, 3, 100}
RawInputs == {<<>>, <<1, 3, 0, 200, 0, 100>>,
              <<49, 50, 51, 52, 53, 54, 55, 56, 57>>}
ParseCounts == 0..(MaxCount + 1)

RECURSIVE SeqsUpTo(_, _)
SeqsUpTo(S, n) ==
    IF n = 0 THEN {<<>>}
    ELSE LET shorter == SeqsUpTo(S, n - 1)
         IN  shorter \cup {Append(s, x) : s \in {t \in shorter : Len(t) = n - 1}, x \in S}

RECURSIVE PackAll(_, _)
PackAll(values, i) ==
    IF i > Len(values) THEN <<>> ELSE PackH(values[i]) \o PackAll(values, i + 1)

\* the device's answer to a read: [addr, 0x03, byteCount, data..., crcLo, crcHi]
\* (layout as expected at tev_waveform_test.py line 81 and read at line 205)
WellFormedResponse(addr, values) ==
    LET body == <<addr, 3, 2 * Len(values)>> \o PackAll(values, 1)
    IN  body \o calculate_crc(body)

\* the device's exception answer: [addr, 0x83, exceptionCode, crcLo, crcHi]
ExceptionResponseFrame(addr, code) ==
    LET body == <<addr, 131, code>>
    IN  body \o calculate_crc(body)

Origin(kind, addr, values, code, start, count) ==
    [kind |-> kind, addr |-> addr, values |-> values, code |-> code,
     start |-> start, count |-> count]
NoTamper == [kind |-> "none", at |-> 0]
NotParsed == [none |-> TRUE, registers |-> <<>>, printed |-> "not_called",
              exception_code |-> -1]

FlipBitAt(f, i) ==
    [f EXCEPT ![(i \div 8) + 1] = BitXor(@, Pow2(i % 8))]

\* no serial.Serial object: main() has not opened the port
NoSerial == [open |-> FALSE, baudrate |-> 0, has_timeout |-> FALSE, timeout |-> 0]

\* nothing is on the line
Silent == [kind |-> "silent", bytes |-> <<>>]

\* main() has been entered and has done nothing yet
MainIdle ==
    [pc |-> "start", device_addr |-> 1, baudrate |-> 9600, request |-> <<>>,
     ser |-> NoSerial, closes |-> 0, device |-> Silent, response |-> <<>>,
     registers |-> NotParsed, saved |-> FALSE, rc |-> -1]

\* nothing has been received or built yet in this run
Fresh == cpc = "input" /\ frame = <<>> /\ tamper.kind = "none"

NewFrame(f, o) ==
    /\ Fresh
    /\ frame' = f
    /\ origin' = o
    /\ pristine' = f
    /\ tamper' = NoTamper
    /\ cpc' = "input"
    /\ expect' = 0
    /\ parsed' = NotParsed
    /\ crc_out' = <<>>
    /\ UNCHANGED <<main, sessionVars, guiVars>>

Tampered(f, t) ==
    /\ cpc = "input"
    /\ tamper.kind = "none"
    /\ frame' = f
    /\ tamper' = t
    /\ cpc' = "input"
    /\ expect' = 0
    /\ parsed' = NotParsed
    /\ crc_out' = <<>>
    /\ UNCHANGED <<origin, pristine, main, sessionVars, guiVars>>

InitCodec ==
    /\ cpc = "input"
    /\ frame = <<>>
    /\ origin = Origin("raw", 0, <<>>, 0, 0, 0)
    /\ pristine = <<>>
    /\ tamper = NoTamper
    /\ expect = 0
    /\ parsed = NotParsed
    /\ crc_out = <<>>
    /\ main = MainIdle

\* request = build_read_registers_request(device_addr, start, count)
BuildRequest ==
    \E a \in Addrs, s \in StartAddresses, c \in RequestCounts :
        NewFrame(build_read_registers_request(a, s, c),
                 Origin("request", a, <<>>, 0, s, c))

\* response = ser.read(...): a well-formed answer carrying values
ReceiveResponse ==
    \E a \in Addrs, vs \in SeqsUpTo(RegValues, MaxCount) :
        NewFrame(WellFormedResponse(a, vs), Origin("response", a, vs, 0, 0, Len(vs)))

\* response = ser.read(...): a well-formed exception answer
ReceiveException ==
    \E a \in Addrs, x \in ExcCodes :
        NewFrame(ExceptionResponseFrame(a, x), Origin("exception", a, <<>>, x, 0, 0))

\* any other bytes
ReceiveRaw ==
    \E d \in RawInputs : NewFrame(d, Origin("raw", 0, <<>>, 0, 0, 0))

\* line noise: one bit of the frame flipped
FlipBit ==
    \E i \in 0..(8 * Len(frame) - 1) :
        Tampered(FlipBitAt(frame, i), [kind |-> "flip", at |-> i])

\* a short read after a timeout: the last k bytes are missing
Truncate ==
    \E k \in 1..Len(frame) :
        Tampered(SubSeq(frame, 1, Len(frame) - k), [kind |-> "truncate", at |-> k])

\* trailing garbage: one more byte on the line
AppendByte ==
    \E b \in {0, 255} :
        /\ Len(frame) > 0
        /\ Tampered(Append(frame, b), [kind |-> "append", at |-> b])

\* a device that sends one register more than its byte count announces,
\* with a CRC that is right for what it sent
PadRegister ==
    \E v \in RegValues :
        /\ origin.kind = "response"
        /\ LET body == SubSeq(frame, 1, Len(frame) - 2) \o PackH(v)
           IN  Tampered(body \o calculate_crc(body), [kind |-> "pad", at |-> v])

\* a device that answers with another function code, with a CRC that is
\* right for what it sent
OtherFunction ==
    \E fn \in {4, 16, 144} :
        /\ origin.kind = "response"
        /\ tamper.kind = "none"
        /\ LET body == [SubSeq(frame, 1, Len(frame) - 2) EXCEPT ![2] = fn]
           IN  Tampered(body \o calculate_crc(body), [kind |-> "function", at |-> fn])

\* a device that announces another byte count than it sends, with a CRC
\* that is right for what it sent
OtherByteCount ==
    \E bc \in {0, 2, 255} :
        /\ origin.kind = "response"
        /\ tamper.kind = "none"
        /\ bc # frame[3]
        /\ LET body == [SubSeq(frame, 1, Len(frame) - 2) EXCEPT ![3] = bc]
           IN  Tampered(body \o calculate_crc(body), [kind |-> "byte_count", at |-> bc])

\* addresses of other devices on the line, and the broadcast address
OtherAddrs == {0, 2, 255}

\* the frame f as a device with address a sends it: first byte a, CRC
\* computed over what is sent
Readdressed(f, a) ==
    LET body == [SubSeq(f, 1, Len(f) - 2) EXCEPT ![1] = a]
    IN  body \o calculate_crc(body)

\* the answer comes from another device address than the one asked
OtherAddress ==
    \E a \in OtherAddrs :
        /\ origin.kind = "response"
        /\ tamper.kind = "none"
        /\ Tampered(Readdressed(frame, a), [kind |-> "address", at |-> a])

\* registers = parse_read_registers_response(response, register_count)
Parse ==
    \E c \in ParseCounts :
        /\ cpc = "input"
        /\ cpc' = "parsed"
        /\ expect' = c
        /\ parsed' = parse_read_registers_response(frame, c)
        /\ UNCHANGED <<frame, origin, pristine, tamper, crc_out, main, sessionVars, guiVars>>

\* calculate_crc(frame)
Crc ==
    /\ cpc = "input"
    /\ cpc' = "crc"
    /\ crc_out' = calculate_crc(frame)
    /\ UNCHANGED <<frame, origin, pristine, tamper, expect, parsed, main, sessionVars, guiVars>>

\* the run is over; the next run starts with nothing received
NextExchange ==
    /\ cpc \in {"parsed", "crc"}
    /\ cpc' = "input"
    /\ frame' = <<>>
    /\ origin' = Origin("raw", 0, <<>>, 0, 0, 0)
    /\ pristine' = <<>>
    /\ tamper' = NoTamper
    /\ expect' = 0
    /\ parsed' = NotParsed
    /\ crc_out' = <<>>
    /\ UNCHANGED <<main, sessionVars, guiVars>>

NextCodec ==
    \/ BuildRequest
    \/ ReceiveResponse
    \/ ReceiveException
    \/ ReceiveRaw
    \/ FlipBit
    \/ Truncate
    \/ AppendByte
    \/ PadRegister
    \/ OtherFunction
    \/ OtherByteCount
    \/ OtherAddress
    \/ Parse
    \/ Crc
    \/ NextExchange

(***************************************************************************)
(* class TEVAASensor: register map                                         *)
(***************************************************************************)
REG_TEV_VALUE == 5003
REG_TEV_DISCHARGE_COUNT == 5004
REG_AA_VALUE == 5005
REG_TEV_WAVEFORM_START == 201
REG_TEV_WAVEFORM_END == 300
REG_AA_WAVEFORM_START == 301
REG_AA_WAVEFORM_END == 400
REG_DEVICE_ADDR == 401
REG_BAUD_RATE == 402
REG_TEV_THRESHOLD == 404
REG_AA_THRESHOLD == 405

Impls == {"tev_aa_sensor", "tev_aa_combined", "tev_aa_simple_gui_v2"}

SingleGetters == {"get_tev_value", "get_tev_discharge_count", "get_aa_value",
                  "get_device_address", "get_baud_rate",
                  "get_tev_threshold", "get_aa_threshold"}
WaveformGetters == {"get_tev_waveform", "get_aa_waveform"}
ReadOps == SingleGetters \cup WaveformGetters \cup {"get_all_sensor_values"}
WriteOps == {"set_device_address", "set_baud_rate",
             "set_tev_threshold", "set_aa_threshold"}

\* the documented (1-based) register address each public operation names
OpAddress(op) ==
    CASE op = "get_tev_value" -> REG_TEV_VALUE
      [] op = "get_tev_discharge_count" -> REG_TEV_DISCHARGE_COUNT
      [] op = "get_aa_value" -> REG_AA_VALUE
      [] op = "get_all_sensor_values" -> REG_TEV_VALUE
      [] op = "get_tev_waveform" -> REG_TEV_WAVEFORM_START
      [] op = "get_aa_waveform" -> REG_AA_WAVEFORM_START
      [] op = "get_device_address" -> REG_DEVICE_ADDR
      [] op = "set_device_address" -> REG_DEVICE_ADDR
      [] op = "get_baud_rate" -> REG_BAUD_RATE
      [] op = "set_baud_rate" -> REG_BAUD_RATE
      [] op = "get_tev_threshold" -> REG_TEV_THRESHOLD
      [] op = "set_tev_threshold" -> REG_TEV_THRESHOLD
      [] op = "get_aa_threshold" -> REG_AA_THRESHOLD
      [] op = "set_aa_threshold" -> REG_AA_THRESHOLD

\* the register count each read operation asks for
OpCount(op) ==
    CASE op = "get_all_sensor_values" -> 3
      [] op = "get_tev_waveform" -> REG_TEV_WAVEFORM_END - REG_TEV_WAVEFORM_START + 1
      [] op = "get_aa_waveform" -> REG_AA_WAVEFORM_END - REG_AA_WAVEFORM_START + 1
      [] OTHER -> 1

(***************************************************************************)
(* The Modbus client and the device behind it, as the session sees them.   *)
(***************************************************************************)
\* what self.client.read_holding_registers / write_registers can do:
\*   response         a normal response object
\*   exception        an ExceptionResponse object is returned
\*   io_error         an error object that is no ExceptionResponse is returned
\*                    (no answer within the timeout, corrupted frame)
\*   raised_on_write  the call raises before the frame is on the wire
\*   raised_on_read   the call raises after the frame was written
ClientOutcomes == {"response", "exception", "io_error",
                   "raised_on_write", "raised_on_read"}

\* the parameter registers of a device as delivered, by wire address:
\* address 1, baud rate 9600, thresholds 50 and 60
DeviceRegisters ==
    [w \in 400..405 |-> CASE w = 400 -> 1
                          [] w = 401 -> 9600
                          [] w = 403 -> 50
                          [] w = 404 -> 60
                          [] OTHER -> 0]

\* register contents of the device, by wire (0-based) address; image 0 is
\* the register file the device keeps (regfile)
DeviceImages == {1, 2}
DeviceWord(img, w) ==
    IF img = 0 THEN (IF w \in DOMAIN regfile THEN regfile[w] ELSE 0)
    ELSE IF img = 2 THEN 0
    ELSE CASE w = 5002 -> 50
           [] w = 5003 -> 5
           [] w = 5004 -> 40
           [] OTHER -> w

\* the registers a normal read response carries: n words from wire address w
ResponseRegisters(img, w, n) == [i \in 1..n |-> DeviceWord(img, w + i - 1)]

\* what the environment decides during one call: whether the port can be
\* opened (asked only when the session is not connected), how the exchange
\* ends, and for a normal read response which registers it carries (short:
\* one register fewer than asked for)
Env(conn) ==
    {e \in [open_ok : BOOLEAN, outcome : ClientOutcomes, img : DeviceImages,
            short : {0, 1}] :
        /\ (conn => e.open_ok)
        /\ (e.outcome # "response" => e.img = 1 /\ e.short = 0)}

\* a request frame as the client puts it on the wire
ReadFrame(unit, start, count) ==
    [fn |-> 3, unit |-> unit, start |-> start, count |-> count, values |-> <<>>]
WriteFrame(unit, start, values) ==
    [fn |-> 16, unit |-> unit, start |-> start, count |-> Len(values),
     values |-> values]

\* the client packs every value as an unsigned 16-bit word before sending
Encodable(values) == \A i \in 1..Len(values) : values[i] \in 0..65535

FrameSent(outcome) == outcome # "raised_on_write"

\* a plausible slip: a request that got no usable answer is sent a second time
FramesOfExchange_Retry(f, outcome) ==
    IF ~FrameSent(outcome) THEN <<>>
    ELSE IF outcome \in {"io_error", "raised_on_read"} THEN <<f, f>>
    ELSE <<f>>

\* the one client call of _read_register / _write_register: its request is
\* on the wire once, unless the call raised before sending
FramesOfExchange(f, outcome) ==
    IF FrameSent(outcome) THEN <<f>> ELSE <<>>

(***************************************************************************)
(* class TEVAASensor: return values and raised errors                      *)
(***************************************************************************)
RetNone == [kind |-> "None", data |-> <<>>]
RetTrue == [kind |-> "True", data |-> <<>>]
RetFalse == [kind |-> "False", data |-> <<>>]
RetInt(v) == [kind |-> "int", data |-> <<v>>]
RetList(regs) == [kind |-> "list", data |-> regs]
RetDict(regs) == [kind |-> "dict", data |-> regs]
\* the TEVAASensor object itself (return self)
RetSelf == [kind |-> "self", data |-> <<>>]

\* the session fields a call reads and writes
Session(addr, conn, open, baud) ==
    [device_addr |-> addr, connected |-> conn, port_open |-> open, baud |-> baud]

\* the result of a call: the session after it, how it ended, what it returned,
\* the frames it put on the wire, how often it opened and closed the port,
\* and how the client call of its exchange ended ("none": no client call)
Result(s, outcome, value, frames, opens, closes) ==
    [s |-> s, outcome |-> outcome, value |-> value, frames |-> frames,
     opens |-> opens, closes |-> closes, exchange |-> "none", handed |-> <<>>]

\* a plausible slip: a client call that raised closes the session
Exchanged_ClosesOnFailure(r, outcome) ==
    [r EXCEPT !.exchange = outcome,
              !.s = IF outcome \in {"raised_on_write", "raised_on_read"}
                    THEN [@ EXCEPT !.connected = FALSE, !.port_open = FALSE]
                    ELSE @]

\* the call made the client call of an exchange, which ended as outcome says
Exchanged(r, outcome) == [r EXCEPT !.exchange = outcome]

\* a plausible slip: no "if not self.connected" test, the port is opened again
connect_Reopens(s, env) ==
    LET ok == env.open_ok
    IN  Result([s EXCEPT !.connected = ok, !.port_open = ok], "returned",
               IF ok THEN RetTrue ELSE RetFalse, <<>>, 1, 0)

\* def connect(self)
connect(s, env) ==
    IF ~s.connected
    THEN LET ok == s.port_open \/ env.open_ok
         IN  Result([s EXCEPT !.connected = ok, !.port_open = ok], "returned",
                    IF ok THEN RetTrue ELSE RetFalse, <<>>, 1, 0)
    ELSE Result(s, "returned", RetTrue, <<>>, 0, 0)

\* a plausible slip: no "if self.connected" test, close() is called every time
disconnect_AlwaysCloses(s) ==
    Result([s EXCEPT !.connected = FALSE, !.port_open = FALSE], "returned",
           RetNone, <<>>, 0, 1)

\* def disconnect(self)
disconnect(s) ==
    IF s.connected
    THEN Result([s EXCEPT !.connected = FALSE, !.port_open = FALSE], "returned",
                RetNone, <<>>, 0, 1)
    ELSE Result(s, "returned", RetNone, <<>>, 0, 0)

\* def __enter__(self): self.connect(); return self
context_enter(s, env) == [connect(s, env) EXCEPT !.value = RetSelf]

\* a plausible slip: the session is closed only when the body did not raise
context_exit_OnlyOnSuccess(s, raised) ==
    IF raised THEN Result(s, "returned", RetNone, <<>>, 0, 0) ELSE disconnect(s)

\* def __exit__(self, exc_type, exc_val, exc_tb): self.disconnect(); the
\* exception of the body, if any, is passed on
context_exit(s, raised) == disconnect(s)

\* address=address-1 (tev_aa_sensor, tev_aa_combined); address=address
\* (tev_aa_simple_gui_v2 line 108)
ReadWireAddress(i, address) ==
    IF i = "tev_aa_simple_gui_v2" THEN address ELSE address - 1

\* address=address-1 in all three variants
WriteWireAddress(i, address) == address - 1

\* a plausible slip: the operation insists on a Connected session and never
\* connects by itself
EnsureConnected_NoConnect(s, env) ==
    Result(s, "returned", IF s.connected THEN RetTrue ELSE RetFalse, <<>>, 0, 0)

\* if not self.connected and not self.connect(): RetFalse when the operation
\* is to raise ConnectionError
EnsureConnected(s, env) ==
    IF s.connected THEN Result(s, "returned", RetTrue, <<>>, 0, 0)
    ELSE connect(s, env)

\* def _read_register(self, address, count=1)
read_register(i, s, address, count, env) ==
    LET c == EnsureConnected(s, env)
        w == ReadWireAddress(i, address)
        f == FramesOfExchange(ReadFrame(s.device_addr, w, count), env.outcome)
        n == IF count - env.short < 0 THEN 0 ELSE count - env.short
    IN  IF c.value = RetFalse
        THEN Result(c.s, "ConnectionError", RetNone, <<>>, c.opens, 0)
        ELSE Exchanged(
            IF env.outcome = "response"
            THEN Result(c.s, "returned", RetList(ResponseRegisters(env.img, w, n)),
                        f, c.opens, 0)
            ELSE IF i = "tev_aa_simple_gui_v2"
            THEN Result(c.s, "returned", RetNone, f, c.opens, 0)
            ELSE Result(c.s, "IOError", RetNone, f, c.opens, 0),
            env.outcome)

\* values=values of self.client.write_registers(...): the register values
\* handed to the client for the request
Handed(r, values) == [r EXCEPT !.handed = values]

\* def _write_register(self, address, values)
write_register(i, s, address, values, env) ==
    LET c == EnsureConnected(s, env)
        w == WriteWireAddress(i, address)
        f == IF Encodable(values)
             THEN FramesOfExchange(WriteFrame(s.device_addr, w, values), env.outcome)
             ELSE <<>>
    IN  IF c.value = RetFalse
        THEN Result(c.s, "ConnectionError", RetNone, <<>>, c.opens, 0)
        ELSE IF ~Encodable(values)
        THEN Handed(Exchanged(Result(c.s, "IOError", RetNone, f, c.opens, 0),
                              "raised_on_write"), values)
        ELSE Handed(Exchanged(
            IF env.outcome \in {"response", "io_error"}
            THEN Result(c.s, "returned", RetTrue, f, c.opens, 0)
            ELSE Result(c.s, "IOError", RetNone, f, c.opens, 0),
            env.outcome), values)

\* result[0] if result else None
FirstOrNone(r) ==
    IF r.outcome = "returned" /\ r.value.kind = "list" /\ Len(r.value.data) > 0
    THEN [r EXCEPT !.value = RetInt(r.value.data[1])]
    ELSE IF r.outcome = "returned" THEN [r EXCEPT !.value = RetNone]
    ELSE r

\* def get_tev_value(self) and the other single-register getters
single_getter(i, s, op, env) ==
    FirstOrNone(read_register(i, s, OpAddress(op), 1, env))

\* def get_all_sensor_values(self)
get_all_sensor_values(i, s, env) ==
    LET r == read_register(i, s, REG_TEV_VALUE, 3, env)
    IN  IF r.outcome = "returned"
        THEN IF r.value.kind = "list" /\ Len(r.value.data) = 3
             THEN [r EXCEPT !.value = RetDict(r.value.data)]
             ELSE [r EXCEPT !.value = RetNone]
        ELSE IF i = "tev_aa_simple_gui_v2"
        THEN [r EXCEPT !.outcome = "returned", !.value = RetNone]
        ELSE [r EXCEPT !.outcome = "IOError"]

\* def get_tev_waveform(self) / def get_aa_waveform(self)
get_waveform(i, s, op, env) ==
    read_register(i, s, OpAddress(op), OpCount(op), env)

\* a plausible slip: 0 is let through
ValidDeviceAddress_FromZero(address) == 0 <= address /\ address <= 247

\* 1 <= address <= 247
ValidDeviceAddress(address) == 1 <= address /\ address <= 247

\* a plausible slip: the new address is not taken over by the session
AddressAfterWrite_Kept(s, address) == s

\* self.device_addr = address
AddressAfterWrite(s, address) == [s EXCEPT !.device_addr = address]

\* def set_device_address(self, address)
set_device_address(i, s, address, env) ==
    IF ~ValidDeviceAddress(address)
    THEN Result(s, "ValueError", RetNone, <<>>, 0, 0)
    ELSE LET r == write_register(i, s, REG_DEVICE_ADDR, <<address>>, env)
         IN  IF r.outcome = "returned" /\ r.value = RetTrue
             THEN [r EXCEPT !.s = AddressAfterWrite(r.s, address)]
             ELSE IF r.outcome = "returned" THEN [r EXCEPT !.value = RetFalse]
             ELSE r

valid_baudrates == {1200, 2400, 4800, 9600, 19200, 38400, 57600, 115200}

\* a plausible slip: a range test in place of the membership test
ValidBaudRate_Range(baudrate) == 1200 <= baudrate /\ baudrate <= 115200

\* baudrate in valid_baudrates
ValidBaudRate(baudrate) == baudrate \in valid_baudrates

\* a plausible slip: the session's own serial client is switched to the rate
BaudAfterWrite_Reconfigured(s, baudrate) == [s EXCEPT !.baud = baudrate]

\* the write is all set_baud_rate does: self.client keeps the baud rate it
\* was built with in __init__
BaudAfterWrite(s, baudrate) == s

\* def set_baud_rate(self, baudrate)
set_baud_rate(i, s, baudrate, env) ==
    IF ~ValidBaudRate(baudrate)
    THEN Result(s, "ValueError", RetNone, <<>>, 0, 0)
    ELSE LET r == write_register(i, s, REG_BAUD_RATE, <<baudrate>>, env)
         IN  [r EXCEPT !.s = BaudAfterWrite(r.s, baudrate)]

\* a plausible slip: a narrower range checked before the write
set_threshold_Limited(i, s, op, threshold, env) ==
    IF threshold \in 0..1000
    THEN write_register(i, s, OpAddress(op), <<threshold>>, env)
    ELSE Result(s, "ValueError", RetNone, <<>>, 0, 0)

\* def set_tev_threshold(self, threshold) / def set_aa_threshold(self, threshold)
set_threshold(i, s, op, threshold, env) ==
    write_register(i, s, OpAddress(op), <<threshold>>, env)

(***************************************************************************)
(* Spec: one TEVAASensor session, one caller, one call at a time.          *)
(***************************************************************************)
InitAddrs == {0, 1, 248}
InitBauds == {9600, 19200}
AddressArgs == {0, 1, 2, 247, 248}
BaudArgs == {0, 1200, 9600, 9601, 115200}
ThresholdArgs == {0, 55, 65535}

NoCall(s) ==
    [op |-> "__init__", arg |-> 0, outcome |-> "returned", value |-> RetNone,
     frames |-> <<>>, opens |-> 0, closes |-> 0, exchange |-> "none",
     handed |-> <<>>, pre |-> s, set_addr |-> -1]

Self == Session(device_addr, connected, port_open, client_baud)

\* the call op(arg) was made on the session and ended as r says
CalledOn(op, arg, r) ==
    /\ device_addr' = r.s.device_addr
    /\ connected' = r.s.connected
    /\ port_open' = r.s.port_open
    /\ client_baud' = r.s.baud
    /\ last' = [op |-> op, arg |-> arg, outcome |-> r.outcome, value |-> r.value,
                frames |-> r.frames, opens |-> r.opens, closes |-> r.closes,
                exchange |-> r.exchange, handed |-> r.handed, pre |-> Self,
                set_addr |-> IF op = "set_device_address" /\ r.outcome = "returned"
                                /\ r.value = RetTrue
                             THEN arg ELSE last.set_addr]
    /\ UNCHANGED <<impl, codecVars, guiVars>>

\* a public call against a device whose registers the call does not change
Called(op, arg, r) == CalledOn(op, arg, r) /\ UNCHANGED regfile

IdleGui ==
    /\ gui = [pc |-> "idle", sensor |-> 0, data_thread |-> FALSE, ret |-> "idle"]
    /\ dpc = "none"
    /\ running = FALSE
    /\ dsensor = 0
    /\ waves = <<>>
    /\ sensors = <<>>
    /\ refresh_tev_btn = FALSE
    /\ outstanding = {}
    /\ events = <<>>

\* TEVAASensor(port, device_addr, baudrate): __init__
Init ==
    /\ impl \in Impls
    /\ device_addr \in InitAddrs
    /\ connected = FALSE
    /\ port_open = FALSE
    /\ client_baud \in InitBauds
    /\ last = NoCall(Session(device_addr, FALSE, FALSE, client_baud))
    /\ regfile = DeviceRegisters
    /\ InitCodec
    /\ IdleGui

Connect ==
    \E env \in Env(connected) : Called("connect", 0, connect(Self, env))

Disconnect ==
    Called("disconnect", 0, disconnect(Self))

SingleGetter ==
    \E op \in SingleGetters, env \in Env(connected) :
        Called(op, 0, single_getter(impl, Self, op, env))

GetAllSensorValues ==
    \E env \in Env(connected) :
        Called("get_all_sensor_values", 0, get_all_sensor_values(impl, Self, env))

GetWaveform ==
    \E op \in WaveformGetters, env \in Env(connected) :
        Called(op, 0, get_waveform(impl, Self, op, env))

SetDeviceAddress ==
    \E a \in AddressArgs, env \in Env(connected) :
        Called("set_device_address", a, set_device_address(impl, Self, a, env))

SetBaudRate ==
    \E b \in BaudArgs, env \in Env(connected) :
        Called("set_baud_rate", b, set_baud_rate(impl, Self, b, env))

SetThreshold ==
    \E op \in {"set_tev_threshold", "set_aa_threshold"}, v \in ThresholdArgs,
       env \in Env(connected) :
        Called(op, v, set_threshold(impl, Self, op, v, env))

\* with TEVAASensor(...) as sensor: the block is entered
Enter ==
    \E env \in Env(connected) : Called("__enter__", 0, context_enter(Self, env))

\* the with-block is left, by its end (arg 0) or by an exception (arg 1)
Exit ==
    \E raised \in BOOLEAN :
        Called("__exit__", IF raised THEN 1 ELSE 0, context_exit(Self, raised))

Next ==
    \/ Enter
    \/ Exit
    \/ Connect
    \/ Disconnect
    \/ SingleGetter
    \/ GetAllSensorValues
    \/ GetWaveform
    \/ SetDeviceAddress
    \/ SetBaudRate
    \/ SetThreshold

Spec == Init /\ [][Next]_vars

(***************************************************************************)
(* SpecCodec: the codec functions applied to bounded inputs.               *)
(***************************************************************************)
IdleSession ==
    /\ impl = "tev_aa_combined"
    /\ device_addr = 1
    /\ connected = FALSE
    /\ port_open = FALSE
    /\ client_baud = 9600
    /\ last = NoCall(Session(1, FALSE, FALSE, 9600))
    /\ regfile = DeviceRegisters

CodecInit == InitCodec /\ IdleSession /\ IdleGui

SpecCodec == CodecInit /\ [][NextCodec]_vars

(***************************************************************************)
(* SpecRoundTrip: one session against a device that acknowledges every     *)
(* write, stores what is written and answers every read from the same      *)
(* register file.                                                          *)
(***************************************************************************)
StoringDevice == [open_ok |-> TRUE, outcome |-> "response", img |-> 0, short |-> 0]

RtInit == IdleSession /\ InitCodec /\ IdleGui

\* a setter; the device stores the values of the write request it got
RtSet ==
    \E op \in WriteOps :
        \E arg \in (CASE op = "set_device_address" -> AddressArgs
                      [] op = "set_baud_rate" -> BaudArgs
                      [] OTHER -> ThresholdArgs) :
            LET r == CASE op = "set_device_address"
                          -> set_device_address(impl, Self, arg, StoringDevice)
                       [] op = "set_baud_rate"
                          -> set_baud_rate(impl, Self, arg, StoringDevice)
                       [] OTHER -> set_threshold(impl, Self, op, arg, StoringDevice)
            IN  /\ CalledOn(op, arg, r)
                /\ regfile' = IF r.frames # <<>> /\ r.frames[1].start \in DOMAIN regfile
                              THEN [regfile EXCEPT ![r.frames[1].start] =
                                                      r.frames[1].values[1]]
                              ELSE regfile

\* a getter of a parameter register; the device answers from its registers
RtGet ==
    \E op \in {"get_device_address", "get_baud_rate",
               "get_tev_threshold", "get_aa_threshold"} :
        /\ CalledOn(op, 0, single_getter(impl, Self, op, StoringDevice))
        /\ UNCHANGED regfile

\* which source file's TEVAASensor the session is
RtChoose ==
    /\ last.op = "__init__"
    /\ impl' \in Impls \ {impl}
    /\ UNCHANGED <<device_addr, connected, port_open, client_baud, last, regfile,
                   codecVars, guiVars>>

RtNext == RtChoose \/ RtSet \/ RtGet

SpecRoundTrip == RtInit /\ [][RtNext]_vars

(***************************************************************************)
(* SpecMain: one run of main() of tev_waveform_test.py.  Its steps are the *)
(* places where it waits for the user or for the serial port: the port     *)
(* menu, the two parameter prompts, serial.Serial(), ser.write(),          *)
(* ser.read() and the save prompt.  main() reads tev_register_count = 100  *)
(* registers; the run is modelled with MainCount registers so that frames  *)
(* stay short.                                                             *)
(***************************************************************************)
MainCount == 2

\* tev_start_address = 201
TEV_START_ADDRESS == 201

\* what the user types at a prompt: something int() rejects, or a number
MainInputs(S) == {[ok |-> FALSE, v |-> 0]} \cup {[ok |-> TRUE, v |-> n] : n \in S}
MainAddrValues == {0, 1, 247, 256}
MainBaudValues == {9600, 19200}

\* struct.pack('>BBHH', ...) raises struct.error outside these ranges
StructPackable(addr, start, count) ==
    addr \in 0..255 /\ start \in 0..65535 /\ count \in 0..65535

\* a plausible slip: serial.Serial(...) without timeout=, a read that blocks
\* until all the bytes asked for are there
SerialPort_NoTimeout(baudrate) ==
    [open |-> TRUE, baudrate |-> baudrate, has_timeout |-> FALSE, timeout |-> 0]

\* serial.Serial(port=port, baudrate=baudrate, ..., timeout=2)
SerialPort(baudrate) ==
    [open |-> TRUE, baudrate |-> baudrate, has_timeout |-> TRUE, timeout |-> 2]

\* what the line delivers after the request: nothing, the bytes of an answer
\* (complete, cut short, corrupted, followed by noise, an exception answer),
\* or a port failure under the read
DeviceBehaviours(addr) ==
    LET full == {WellFormedResponse(addr % 256, [k \in 1..MainCount |-> v]) :
                    v \in RegValues}
    IN  {Silent, [kind |-> "raises", bytes |-> <<>>]}
        \cup {[kind |-> "answers", bytes |-> f] : f \in full}
        \cup {[kind |-> "answers", bytes |-> SubSeq(f, 1, 4)] : f \in full}
        \cup {[kind |-> "answers", bytes |-> Append(f, 0)] : f \in full}
        \cup {[kind |-> "answers", bytes |-> FlipBitAt(f, 24)] : f \in full}
        \cup {[kind |-> "answers", bytes |-> ExceptionResponseFrame(addr % 256, c)] :
                c \in ExcCodes}

\* ser.read(size) returns once size bytes are there, or when the timeout of
\* the port has run out; with no timeout it waits for the bytes for ever
SerialReadReturns(ser, arrived, size) ==
    ser.has_timeout \/ Len(arrived) >= size

\* ser.read(size): at most size bytes of what arrived
SerialRead(arrived, size) ==
    SubSeq(arrived, 1, IF Len(arrived) < size THEN Len(arrived) ELSE size)

MainStep(m) ==
    /\ main' = m
    /\ UNCHANGED <<cpc, frame, origin, pristine, tamper, expect, parsed, crc_out,
                   sessionVars, guiVars>>

\* return 1 / return 0
MainReturned(m, rc) == [m EXCEPT !.pc = "returned", !.rc = rc]

\* ser.close()
MainClosed(m) == [m EXCEPT !.ser.open = FALSE, !.closes = @ + 1]

MainInit ==
    /\ InitCodec
    /\ IdleSession
    /\ IdleGui

\* port = select_port(); if not port: return 1
MainSelectPort ==
    /\ main.pc = "start"
    /\ \E selected \in BOOLEAN :
        MainStep(IF selected THEN [main EXCEPT !.pc = "params"]
                 ELSE MainReturned(main, 1))

\* the two int(input(...)) in one try, then build_read_registers_request,
\* which is outside the try block of the serial port
MainBuildRequest ==
    /\ main.pc = "params"
    /\ \E a \in MainInputs(MainAddrValues), b \in MainInputs(MainBaudValues) :
        LET addr == IF a.ok THEN a.v ELSE 1
            baud == IF a.ok /\ b.ok THEN b.v ELSE 9600
            m == [main EXCEPT !.device_addr = addr, !.baudrate = baud]
        IN  MainStep(
              IF StructPackable(addr, TEV_START_ADDRESS, MainCount)
              THEN [m EXCEPT !.pc = "built",
                             !.request = build_read_registers_request(
                                            addr, TEV_START_ADDRESS, MainCount)]
              ELSE [m EXCEPT !.pc = "raised"])

\* ser = serial.Serial(...); SerialException goes to the except block
MainOpen ==
    /\ main.pc = "built"
    /\ \E ok \in BOOLEAN :
        MainStep(IF ok THEN [main EXCEPT !.pc = "opened",
                                         !.ser = SerialPort(main.baudrate)]
                 ELSE MainReturned(main, 1))

\* ser.reset_input_buffer(); ser.write(request)
MainWrite ==
    /\ main.pc = "opened"
    /\ \E ok \in BOOLEAN, d \in DeviceBehaviours(main.device_addr) :
        MainStep(IF ok THEN [main EXCEPT !.pc = "written", !.device = d]
                 ELSE MainReturned(main, 1))

\* response = ser.read(expected_response_length) and what follows it up to
\* the save prompt or the return
MainRead ==
    /\ main.pc = "written"
    /\ LET size == 5 + MainCount * 2
           response == SerialRead(main.device.bytes, size)
           registers == parse_read_registers_response(response, MainCount)
           m == [main EXCEPT !.response = response]
       IN  IF main.device.kind = "raises"
           THEN MainStep(MainReturned(main, 1))
           ELSE /\ SerialReadReturns(main.ser, main.device.bytes, size)
                /\ MainStep(
                     IF response = <<>>
                     THEN MainReturned(MainClosed(m), 1)
                     ELSE IF ~registers.none /\ registers.registers # <<>>
                     THEN [m EXCEPT !.registers = registers, !.pc = "save_prompt"]
                     ELSE MainReturned(
                            MainClosed([m EXCEPT !.registers = registers]), 0))

\* save_option = input(...); the file is written on 'y'; ser.close(); return 0
MainSave ==
    /\ main.pc = "save_prompt"
    /\ \E choice \in {"y", "n", "y_open_fails"} :
        MainStep(IF choice = "y_open_fails" THEN MainReturned(main, 1)
                 ELSE MainReturned(
                        MainClosed([main EXCEPT !.saved = (choice = "y")]), 0))

MainNext ==
    \/ MainSelectPort
    \/ MainBuildRequest
    \/ MainOpen
    \/ MainWrite
    \/ MainRead
    \/ MainSave

SpecMain == MainInit /\ [][MainNext]_vars

\* ser.read() is a call of the operating system that is always served: it
\* returns after at most the timeout of the port
SpecMainFair == SpecMain /\ WF_vars(MainRead)

(***************************************************************************)
(* SpecGui: tev_aa_gui.py.  Every connect_sensor builds a new TEVAASensor  *)
(* (tev_aa_combined) with a client of its own; a DataMonitorThread and a   *)
(* WaveformThread keep the sensor object they were built with, whatever    *)
(* the GUI does with self.sensor afterwards.  A register exchange is two   *)
(* steps of the calling thread: the request is written to the serial line, *)
(* then the response is read (or the read times out).  TEVAASensor takes   *)
(* no lock around the two.                                                 *)
(*                                                                         *)
(* Signals of the threads (error_occurred, finished) are queued for the    *)
(* GUI thread in the order they were emitted; their slots run one by one   *)
(* when the GUI thread is in an event loop: the main loop ("idle") or the  *)
(* loop of a modal QMessageBox inside connect_sensor.                      *)
(*                                                                         *)
(* The DataMonitorThread and the GUI thread make their exchanges on a      *)
(* sensor that no other thread disconnects meanwhile (disconnect_sensor    *)
(* and closeEvent wait for the DataMonitorThread first), so the connection *)
(* test and the request are one step for them.  A WaveformThread is not    *)
(* waited for: its test and its request are two steps.                     *)
(*                                                                         *)
(* SensorGUI.set_tev_threshold / set_aa_threshold call QMessageBox.getInt, *)
(* which PyQt5 does not have: they raise before any exchange and are left  *)
(* out.  A click on the refresh button without a connected sensor returns  *)
(* at once and changes nothing.  closeEvent clears no handle: the handlers *)
(* of the window object stay callable after it.                            *)
(***************************************************************************)

\* TEVAASensor objects built and WaveformThreads started in one run, and
\* signals queued for the GUI thread at one time
MaxSensors == 2
MaxWaves == 3
MaxEvents == 3

\* the TEVAASensor object number i as the session operators take it
Sensor(i) ==
    Session(device_addr, sensors[i].connected, sensors[i].port_open, client_baud)

\* if not self.connected and not self.connect(): the session after the test,
\* and whether the call goes on (tev_aa_combined.py lines 128-129)
Reach(i, ok) ==
    IF sensors[i].connected THEN Result(Sensor(i), "returned", RetTrue, <<>>, 0, 0)
    ELSE connect(Sensor(i), [open_ok |-> ok])

OpenChoices(i) ==
    IF sensors[i].connected \/ sensors[i].port_open THEN {TRUE} ELSE BOOLEAN

\* how the read of a response can end for the caller:
\*   "values"  a response with the registers asked for
\*   "short"   a response with fewer registers
\*   "error"   IOError (exception response, error object, raised exception)
ReadEnds(i) ==
    IF sensors[i].port_open THEN {"values", "short", "error"} ELSE {"error"}

\* sensor object i is left as the call that ended as r says leaves it
Left(i, r) ==
    sensors' = [sensors EXCEPT ![i] = [connected |-> r.s.connected,
                                       port_open |-> r.s.port_open]]

GuiInit ==
    /\ IdleSession
    /\ InitCodec
    /\ IdleGui

\* toggle_connection -> connect_sensor, up to self.sensor.connect(); when
\* int() of a field raises, no sensor is built and the except branch shows
\* its QMessageBox.critical with self.sensor as it was
GuiConnect ==
    /\ gui.pc = "idle"
    /\ ~(gui.sensor # 0 /\ sensors[gui.sensor].connected)
    /\ \/ /\ gui' = [gui EXCEPT !.pc = "connect_failed"]
          /\ UNCHANGED <<sensors, refresh_tev_btn>>
       \/ /\ Len(sensors) < MaxSensors
          /\ Len(waves) < MaxWaves
          /\ \E ok \in BOOLEAN :
              LET r == connect(Session(device_addr, FALSE, FALSE, client_baud),
                               [open_ok |-> ok])
              IN  /\ sensors' = Append(sensors, [connected |-> r.s.connected,
                                                 port_open |-> r.s.port_open])
                  /\ gui' = [gui EXCEPT !.sensor = Len(sensors) + 1,
                                        !.pc = IF r.value = RetTrue THEN "params_tev"
                                               ELSE "connect_failed"]
                  /\ refresh_tev_btn' = (refresh_tev_btn \/ r.value = RetTrue)
    /\ UNCHANGED <<sessionVars, codecVars, dpc, running, dsensor, waves,
                   outstanding, events>>

\* connect_sensor after a failed connect() or in its except branch: the
\* QMessageBox.critical is closed, self.sensor = None
GuiConnectFailed ==
    /\ gui.pc = "connect_failed"
    /\ gui' = [gui EXCEPT !.pc = "idle", !.sensor = 0]
    /\ UNCHANGED <<sessionVars, codecVars, dpc, running, dsensor, waves, sensors,
                   refresh_tev_btn, outstanding, events>>

\* read_device_params: get_tev_threshold / get_aa_threshold, request written;
\* an exception ends the try block in the QMessageBox.warning
GuiParamsWrite ==
    /\ gui.pc \in {"params_tev", "params_aa"}
    /\ \E ok \in OpenChoices(gui.sensor) :
        LET r == Reach(gui.sensor, ok)
        IN  /\ Left(gui.sensor, r)
            /\ IF r.value = RetFalse
               THEN gui' = [gui EXCEPT !.pc = "params_failed"] /\ UNCHANGED outstanding
               ELSE /\ gui' = [gui EXCEPT !.pc = IF gui.pc = "params_tev"
                                                THEN "params_tev_read"
                                                ELSE "params_aa_read"]
                    /\ outstanding' = outstanding \cup {<<"gui", 0>>}
    /\ UNCHANGED <<sessionVars, codecVars, dpc, running, dsensor, waves,
                   refresh_tev_btn, events>>

\* read_device_params: the response is read
GuiParamsRead ==
    /\ gui.pc \in {"params_tev_read", "params_aa_read"}
    /\ \E e \in ReadEnds(gui.sensor) :
        gui' = [gui EXCEPT !.pc = IF e = "error" THEN "params_failed"
                                   ELSE IF gui.pc = "params_tev_read"
                                   THEN "params_aa" ELSE "start_threads"]
    /\ outstanding' = outstanding \ {<<"gui", 0>>}
    /\ UNCHANGED <<sessionVars, codecVars, dpc, running, dsensor, waves, sensors,
                   refresh_tev_btn, events>>

\* start_data_monitoring() and refresh_waveforms() at the end of
\* connect_sensor, once read_device_params has returned (its warning closed)
GuiStartThreads ==
    /\ gui.pc \in {"start_threads", "params_failed"}
    /\ IF gui.sensor # 0 /\ sensors[gui.sensor].connected
       THEN /\ gui' = [gui EXCEPT !.pc = "idle", !.data_thread = TRUE]
            /\ dpc' = "started"
            /\ running' = FALSE
            /\ dsensor' = gui.sensor
            /\ refresh_tev_btn' = FALSE
            /\ waves' = Append(waves, [pc |-> "started", sensor |-> gui.sensor])
       ELSE /\ gui' = [gui EXCEPT !.pc = "idle"]
            /\ UNCHANGED <<dpc, running, dsensor, refresh_tev_btn, waves>>
    /\ UNCHANGED <<sessionVars, codecVars, sensors, outstanding, events>>

\* a click on the enabled refresh button: refresh_waveforms
GuiRefreshWaveforms ==
    /\ gui.pc = "idle"
    /\ refresh_tev_btn
    /\ gui.sensor # 0 /\ sensors[gui.sensor].connected
    /\ Len(waves) < MaxWaves
    /\ refresh_tev_btn' = FALSE
    /\ waves' = Append(waves, [pc |-> "started", sensor |-> gui.sensor])
    /\ UNCHANGED <<sessionVars, codecVars, gui, dpc, running, dsensor, sensors,
                   outstanding, events>>

\* the finished signal of a WaveformThread is first in the queue:
\* lambda: self.refresh_tev_btn.setEnabled(True)
GuiFinished ==
    /\ gui.pc \in {"idle", "connect_failed", "params_failed"}
    /\ events # <<>>
    /\ Head(events) = "finished"
    /\ events' = Tail(events)
    /\ refresh_tev_btn' = TRUE
    /\ UNCHANGED <<sessionVars, codecVars, gui, dpc, running, dsensor, waves,
                   sensors, outstanding>>

\* disconnect_sensor, first part: self.data_thread.stop() sets running = False
BeginDisconnect ==
    IF gui.data_thread
    THEN gui' = [gui EXCEPT !.pc = "wait_data", !.ret = gui.pc] /\ running' = FALSE
    ELSE gui' = [gui EXCEPT !.pc = "close", !.ret = gui.pc] /\ UNCHANGED running

\* toggle_connection -> disconnect_sensor
GuiDisconnect ==
    /\ gui.pc = "idle"
    /\ gui.sensor # 0 /\ sensors[gui.sensor].connected
    /\ BeginDisconnect
    /\ UNCHANGED <<sessionVars, codecVars, dpc, dsensor, waves, sensors,
                   refresh_tev_btn, outstanding, events>>

\* a plausible slip: stop() without self.wait(), it returns at once
GuiWaitData_NoWait ==
    /\ gui.pc \in {"wait_data", "close_wait"}
    /\ gui' = IF gui.pc = "wait_data"
              THEN [gui EXCEPT !.pc = "close", !.data_thread = FALSE]
              ELSE [gui EXCEPT !.pc = "close_sensor"]
    /\ UNCHANGED <<sessionVars, codecVars, dpc, running, dsensor, waves, sensors,
                   refresh_tev_btn, outstanding, events>>

\* DataMonitorThread.stop: self.wait() returns when run() has returned;
\* disconnect_sensor then sets self.data_thread = None, closeEvent does not
GuiWaitData ==
    /\ gui.pc \in {"wait_data", "close_wait"}
    /\ dpc \in {"none", "done"}
    /\ gui' = IF gui.pc = "wait_data"
              THEN [gui EXCEPT !.pc = "close", !.data_thread = FALSE]
              ELSE [gui EXCEPT !.pc = "close_sensor"]
    /\ UNCHANGED <<sessionVars, codecVars, dpc, running, dsensor, waves, sensors,
                   refresh_tev_btn, outstanding, events>>

\* disconnect_sensor, second part: self.sensor.disconnect(); self.sensor =
\* None; the refresh button is disabled
GuiClose ==
    /\ gui.pc = "close"
    /\ IF gui.sensor # 0 THEN Left(gui.sensor, disconnect(Sensor(gui.sensor)))
       ELSE UNCHANGED sensors
    /\ gui' = [gui EXCEPT !.pc = gui.ret, !.ret = "idle", !.sensor = 0]
    /\ refresh_tev_btn' = FALSE
    /\ UNCHANGED <<sessionVars, codecVars, dpc, running, dsensor, waves,
                   outstanding, events>>

\* closeEvent: self.data_thread.stop() if there is a data_thread, then
\* self.sensor.disconnect() if there is a connected sensor; both handles stay
GuiCloseEvent ==
    \/ /\ gui.pc = "idle"
       /\ IF gui.data_thread
          THEN gui' = [gui EXCEPT !.pc = "close_wait"] /\ running' = FALSE
          ELSE gui' = [gui EXCEPT !.pc = "close_sensor"] /\ UNCHANGED running
       /\ UNCHANGED <<sessionVars, codecVars, dpc, dsensor, waves, sensors,
                      refresh_tev_btn, outstanding, events>>
    \/ /\ gui.pc = "close_sensor"
       /\ IF gui.sensor # 0 /\ sensors[gui.sensor].connected
          THEN Left(gui.sensor, disconnect(Sensor(gui.sensor)))
          ELSE UNCHANGED sensors
       /\ gui' = [gui EXCEPT !.pc = "idle"]
       /\ UNCHANGED <<sessionVars, codecVars, dpc, running, dsensor, waves,
                      refresh_tev_btn, outstanding, events>>

\* handle_error(message) for the error_occurred signal that is first in
\* the queue, run by the event loop the GUI thread is in: disconnect_sensor()
\* when the message has the word for "connection" or "communication" in it
GuiHandleError ==
    /\ gui.pc \in {"idle", "connect_failed", "params_failed"}
    /\ events # <<>>
    /\ Head(events) \in {"connect", "other"}
    /\ events' = Tail(events)
    /\ IF Head(events) = "connect" THEN BeginDisconnect
       ELSE UNCHANGED <<gui, running>>
    /\ UNCHANGED <<sessionVars, codecVars, dpc, dsensor, waves, sensors,
                   refresh_tev_btn, outstanding>>

\* DataMonitorThread.run: self.running = True
DataRunBegin ==
    /\ dpc = "started"
    /\ running' = TRUE
    /\ dpc' = "loop"
    /\ UNCHANGED <<sessionVars, codecVars, gui, dsensor, waves, sensors,
                   refresh_tev_btn, outstanding, events>>

\* while self.running
DataLoop ==
    /\ dpc = "loop"
    /\ dpc' = IF running THEN "call" ELSE "done"
    /\ UNCHANGED <<sessionVars, codecVars, gui, running, dsensor, waves, sensors,
                   refresh_tev_btn, outstanding, events>>

\* self.sensor.get_all_sensor_values(): the connection test, then the request
DataCall ==
    /\ dpc = "call"
    /\ \E ok \in OpenChoices(dsensor) :
        LET r == Reach(dsensor, ok)
        IN  /\ Left(dsensor, r)
            /\ IF r.value = RetFalse
               THEN /\ dpc' = "done"
                    /\ Len(events) < MaxEvents
                    /\ events' = Append(events, "connect")
                    /\ UNCHANGED outstanding
               ELSE /\ dpc' = "read"
                    /\ outstanding' = outstanding \cup {<<"data", 0>>}
                    /\ UNCHANGED events
    /\ UNCHANGED <<sessionVars, codecVars, gui, running, dsensor, waves,
                   refresh_tev_btn>>

\* the response: data_updated, or error_occurred (and break on an exception)
DataRead ==
    /\ dpc = "read"
    /\ \E e \in ReadEnds(dsensor) :
        /\ dpc' = IF e = "error" THEN "done" ELSE "sleep"
        /\ IF e = "values" THEN UNCHANGED events
           ELSE Len(events) < MaxEvents /\ events' = Append(events, "other")
    /\ outstanding' = outstanding \ {<<"data", 0>>}
    /\ UNCHANGED <<sessionVars, codecVars, gui, running, dsensor, waves, sensors,
                   refresh_tev_btn>>

\* time.sleep(0.5)
DataSleep ==
    /\ dpc = "sleep"
    /\ dpc' = "loop"
    /\ UNCHANGED <<sessionVars, codecVars, gui, running, dsensor, waves, sensors,
                   refresh_tev_btn, outstanding, events>>

\* WaveformThread.run: get_tev_waveform() / get_aa_waveform() up to the test
\* if not self.connected and not self.connect() of _read_register
WaveTest ==
    /\ \E i \in 1..Len(waves) :
        /\ waves[i].pc \in {"started", "aa"}
        /\ \E ok \in OpenChoices(waves[i].sensor) :
            LET r == Reach(waves[i].sensor, ok)
            IN  /\ Left(waves[i].sensor, r)
                /\ IF r.value = RetFalse
                   THEN /\ waves' = [waves EXCEPT ![i].pc = "done"]
                        /\ Len(events) < MaxEvents
                        /\ events' = Append(events, "connect")
                   ELSE /\ waves' = [waves EXCEPT ![i].pc =
                                        IF waves[i].pc = "started" THEN "tev_call"
                                        ELSE "aa_call"]
                        /\ UNCHANGED events
    /\ UNCHANGED <<sessionVars, codecVars, gui, dpc, running, dsensor,
                   refresh_tev_btn, outstanding>>

\* self.client.read_holding_registers(...): the request is written.  When
\* the GUI thread has closed the port since the test, the client either
\* opens the port again by itself for the request (self.connected stays
\* False) or raises, which ends run() with error_occurred
WaveCall ==
    /\ \E i \in 1..Len(waves) :
        /\ waves[i].pc \in {"tev_call", "aa_call"}
        /\ \/ /\ sensors' = [sensors EXCEPT ![waves[i].sensor].port_open = TRUE]
              /\ waves' = [waves EXCEPT ![i].pc =
                              IF waves[i].pc = "tev_call" THEN "tev_read"
                              ELSE "aa_read"]
              /\ outstanding' = outstanding \cup {<<"wave", i>>}
              /\ UNCHANGED events
           \/ /\ ~sensors[waves[i].sensor].port_open
              /\ waves' = [waves EXCEPT ![i].pc = "done"]
              /\ Len(events) < MaxEvents
              /\ events' = Append(events, "other")
              /\ UNCHANGED <<sensors, outstanding>>
    /\ UNCHANGED <<sessionVars, codecVars, gui, dpc, running, dsensor,
                   refresh_tev_btn>>

\* the response: tev_waveform_ready / aa_waveform_ready, or error_occurred
WaveRead ==
    /\ \E i \in 1..Len(waves) :
        /\ waves[i].pc \in {"tev_read", "aa_read"}
        /\ \E e \in ReadEnds(waves[i].sensor) :
            /\ waves' = [waves EXCEPT ![i].pc =
                            IF e # "error" /\ waves[i].pc = "tev_read" THEN "aa"
                            ELSE "done"]
            /\ IF e = "error"
               THEN Len(events) < MaxEvents /\ events' = Append(events, "other")
               ELSE UNCHANGED events
        /\ outstanding' = outstanding \ {<<"wave", i>>}
    /\ UNCHANGED <<sessionVars, codecVars, gui, dpc, running, dsensor, sensors,
                   refresh_tev_btn>>

\* run() has returned: the thread emits finished and ends
WaveFinished ==
    /\ \E i \in 1..Len(waves) :
        /\ waves[i].pc = "done"
        /\ waves' = [waves EXCEPT ![i].pc = "gone"]
    /\ Len(events) < MaxEvents
    /\ events' = Append(events, "finished")
    /\ UNCHANGED <<sessionVars, codecVars, gui, dpc, running, dsensor, sensors,
                   refresh_tev_btn, outstanding>>

GuiNext ==
    \/ GuiConnect
    \/ GuiConnectFailed
    \/ GuiParamsWrite
    \/ GuiParamsRead
    \/ GuiStartThreads
    \/ GuiRefreshWaveforms
    \/ GuiFinished
    \/ GuiDisconnect
    \/ GuiWaitData
    \/ GuiClose
    \/ GuiCloseEvent
    \/ GuiHandleError
    \/ DataRunBegin
    \/ DataLoop
    \/ DataCall
    \/ DataRead
    \/ DataSleep
    \/ WaveTest
    \/ WaveCall
    \/ WaveRead
    \/ WaveFinished

SpecGui == GuiInit /\ [][GuiNext]_vars

\* a started QThread is scheduled: every step of DataMonitorThread.run that
\* can be taken is taken, and wait() returns once run() has returned
SpecGuiFair ==
    /\ SpecGui
    /\ WF_vars(DataRunBegin) /\ WF_vars(DataLoop) /\ WF_vars(DataCall)
    /\ WF_vars(DataRead) /\ WF_vars(DataSleep) /\ WF_vars(GuiWaitData)

(***************************************************************************)
(* CRC-16/MODBUS as the catalogue of CRC algorithms defines it: width 16,  *)
(* polynomial 0x8005, initial value 0xFFFF, input and output reflected, no *)
(* final XOR.  Computed most significant bit first on bit-reversed bytes,  *)
(* so that it shares no step with calculate_crc.                           *)
(***************************************************************************)
RECURSIVE Reflect(_, _)
Reflect(v, width) ==
    IF width = 0 THEN 0
    ELSE ((v % 2) * Pow2(width - 1)) + Reflect(v \div 2, width - 1)

RefShift(reg) ==
    IF reg >= 32768 THEN BitXor((reg * 2) % 65536, 32773) ELSE (reg * 2) % 65536

RECURSIVE RefBits(_, _)
RefBits(reg, n) ==
    IF n = 0 THEN reg
    ELSE CHOOSE r \in {RefBits(x, n - 1) : x \in {RefShift(reg)}} : TRUE

RECURSIVE RefFold(_, _, _)
RefFold(reg, data, i) ==
    IF i > Len(data) THEN reg
    ELSE CHOOSE r \in {RefFold(x, data, i + 1) :
                       x \in {RefBits(BitXor(reg, Reflect(data[i], 8) * 256), 8)}} : TRUE

RefCrc(data) == Reflect(RefFold(65535, data, 1), 16)

RefCrcBytes(data) ==
    CHOOSE r \in {<<c % 256, c \div 256>> : c \in {RefCrc(data)}} : TRUE

(***************************************************************************)
(* Claims                                                                  *)
(***************************************************************************)

\* the TEVAASensor object the thread that wrote request t holds
C1_SensorOf(t) ==
    CASE t[1] = "gui" -> gui.sensor
      [] t[1] = "data" -> dsensor
      [] t[1] = "wave" -> waves[t[2]].sensor

\* C1 (SpecGui): two requests against one TEVAASensor never interleave on
\* the wire: no request is written to the transport while another one of
\* the same sensor object is still outstanding, so at most one request per
\* sensor object is outstanding at any time.
C1_NoInterleaving ==
    \A t, u \in outstanding : C1_SensorOf(t) = C1_SensorOf(u) => t = u

\* C2 (SpecCodec): a well-formed exception response [addr, 0x83, X, crc] is
\* reported by parse_read_registers_response as the device exception with
\* code X, whatever register count was asked for.
C2_ExceptionReported ==
    (cpc = "parsed" /\ origin.kind = "exception" /\ tamper.kind = "none")
        => (parsed.printed = "exception" /\ parsed.exception_code = origin.code)

\* C3 (SpecCodec): a response whose length differs from 5 + 2*count is
\* rejected and no register is decoded.
C3_WrongLengthRejected ==
    (cpc = "parsed" /\ Len(frame) # 5 + 2 * expect)
        => (parsed.none /\ parsed.registers = <<>>)

\* C3 witness: a response one register too long, with a CRC that is right
\* for its bytes, was parsed and rejected for its length.
C3_Witness ==
    /\ cpc = "parsed"
    /\ tamper.kind = "pad"
    /\ expect = 1
    /\ Len(frame) = 5 + 2 * expect + 2
    /\ parsed.none
    /\ parsed.printed = "length"

\* C4 (SpecCodec): round trip: parsing the synthetic response
\* [addr, 0x03, 2*count, values big-endian, CRC low byte first] with the
\* count of its values returns exactly those values, in order.
C4_RoundTrip ==
    (/\ cpc = "parsed"
     /\ origin.kind = "response"
     /\ tamper.kind = "none"
     /\ frame = WellFormedResponse(origin.addr, origin.values)
     /\ expect = Len(origin.values))
        => (~parsed.none /\ parsed.registers = origin.values)

\* C4 witness: a response carrying 0x0102 and 0xFFFF for address 247 was
\* parsed with count 2.
C4_Witness ==
    /\ cpc = "parsed"
    /\ origin.kind = "response"
    /\ origin.addr = 247
    /\ origin.values = <<258, 65535>>
    /\ tamper.kind = "none"
    /\ expect = 2
    /\ parsed.registers = <<258, 65535>>

\* C5 (SpecCodec): a response that parse_read_registers_response accepts is
\* rejected, with no register decoded, once any single bit of it is flipped.
C5_SingleBitFlipRejected ==
    (/\ cpc = "parsed"
     /\ tamper.kind = "flip"
     /\ ~parse_read_registers_response(pristine, expect).none)
        => (parsed.none /\ parsed.registers = <<>>)

\* C5 witness: an accepted two-register response with a bit of its data
\* flipped was parsed and rejected by the CRC comparison.
C5_Witness ==
    /\ cpc = "parsed"
    /\ tamper.kind = "flip"
    /\ tamper.at \in 24..55
    /\ expect = 2
    /\ ~parse_read_registers_response(pristine, expect).none
    /\ parsed.none
    /\ parsed.printed = "crc"

\* C6 (SpecCodec): calculate_crc returns exactly two bytes, the CRC-16/MODBUS
\* of its input with the low byte first; the documented vectors come out
\* right; the working register stays within 0..0xFFFF at every step.
C6_CrcMatchesReference ==
    cpc = "crc" =>
        /\ Len(crc_out) = 2
        /\ crc_out[1] \in Byte /\ crc_out[2] \in Byte
        /\ crc_out = RefCrcBytes(frame)
        /\ (frame = <<49, 50, 51, 52, 53, 54, 55, 56, 57>> => crc_out = <<55, 75>>)
        /\ (frame = <<1, 3, 0, 200, 0, 100>> => crc_out = <<197, 223>>)
        /\ CrcRegisters(frame) \subseteq 0..65535

\* C6 witness: calculate_crc was applied to the request body 01 03 00 C8 00 64.
C6_Witness ==
    /\ cpc = "crc"
    /\ frame = <<1, 3, 0, 200, 0, 100>>
    /\ crc_out = <<197, 223>>

\* C7 (Spec): every register operation puts the documented (1-based)
\* register address minus 1 on the wire as its start address.
C7_OffsetRule ==
    \A k \in 1..Len(last.frames) : last.frames[k].start = OpAddress(last.op) - 1

\* C8 (Spec): set_device_address(a) with a outside 1..247 fails with a
\* validation error, sends no frame, does not open the transport and leaves
\* the active device address and the connection state as they were.
C8_InvalidAddressRejected ==
    (last.op = "set_device_address" /\ last.arg \notin 1..247)
        => /\ last.outcome = "ValueError"
           /\ last.frames = <<>>
           /\ last.opens = 0
           /\ device_addr = last.pre.device_addr
           /\ connected = last.pre.connected
           /\ port_open = last.pre.port_open

\* C8 witness: set_device_address(248) was rejected on a connected session.
C8_Witness ==
    /\ last.op = "set_device_address"
    /\ last.arg = 248
    /\ last.outcome = "ValueError"
    /\ last.pre.connected
    /\ connected

\* C9 (Spec): set_baud_rate(r) with r outside the enumerated set fails with a
\* validation error, sends no frame and leaves the session state as it was.
C9_InvalidBaudRejected ==
    (last.op = "set_baud_rate"
     /\ last.arg \notin {1200, 2400, 4800, 9600, 19200, 38400, 57600, 115200})
        => /\ last.outcome = "ValueError"
           /\ last.frames = <<>>
           /\ last.opens = 0
           /\ device_addr = last.pre.device_addr
           /\ connected = last.pre.connected
           /\ port_open = last.pre.port_open

\* C9 witness: set_baud_rate(9601) was rejected on a connected session.
C9_Witness ==
    /\ last.op = "set_baud_rate"
    /\ last.arg = 9601
    /\ last.outcome = "ValueError"
    /\ last.pre.connected
    /\ connected

\* the last call was a set_device_address that returned True
C10_SetAddressSucceeded ==
    last.op = "set_device_address" /\ last.outcome = "returned" /\ last.value = RetTrue

\* C10 (Spec): once set_device_address(a) has succeeded the active device
\* address is a, and every frame sent after it, until the next successful
\* set_device_address, is addressed to a; the write request of the successful
\* call itself is addressed to the address that was active before it.
C10_AddressFollows ==
    /\ C10_SetAddressSucceeded
         => /\ last.arg \in 1..247
            /\ device_addr = last.arg
            /\ Len(last.frames) = 1
            /\ last.frames[1].unit = last.pre.device_addr
    /\ last.set_addr # -1
         => /\ device_addr = last.set_addr
            /\ ~C10_SetAddressSucceeded
                 => \A k \in 1..Len(last.frames) : last.frames[k].unit = last.set_addr

\* C10 witness: after a successful set_device_address(2), a later read went
\* out addressed to 2.
C10_Witness ==
    /\ last.set_addr = 2
    /\ last.op = "get_tev_value"
    /\ last.pre.device_addr = 2
    /\ Len(last.frames) = 1
    /\ last.frames[1].unit = 2

\* C11 as stated (Spec): after set_baud_rate, whether it succeeded or failed,
\* the transport baud rate, the connection state and the active device
\* address of the session are what they were before the call.
C11_OnlyDeviceRegister ==
    last.op = "set_baud_rate"
        => /\ client_baud = last.pre.baud
           /\ connected = last.pre.connected
           /\ device_addr = last.pre.device_addr

\* C11 amended (Spec): set_baud_rate never changes the session's transport
\* baud rate or its active device address, and never disconnects; the
\* connection state changes only when a valid rate is given to a Disconnected
\* session, which the write path connects first (one open of the transport).
C11_BaudAndAddressKept ==
    last.op = "set_baud_rate"
        => /\ client_baud = last.pre.baud
           /\ device_addr = last.pre.device_addr
           /\ last.pre.connected => (connected /\ last.opens = 0)
           /\ connected # last.pre.connected
                => /\ ~last.pre.connected
                   /\ connected
                   /\ last.opens = 1
                   /\ last.arg \in {1200, 2400, 4800, 9600, 19200, 38400, 57600, 115200}

\* C11 witness: set_baud_rate(1200) wrote the register of a device on a
\* session whose transport runs at 9600, and the transport still does.
C11_Witness ==
    /\ last.op = "set_baud_rate"
    /\ last.arg = 1200
    /\ last.value = RetTrue
    /\ Len(last.frames) = 1
    /\ last.frames[1].values = <<1200>>
    /\ last.pre.baud = 9600
    /\ client_baud = 9600

\* C12 (Spec): connect() on a Disconnected session opens the transport once,
\* ends Connected exactly when the open succeeded and reports that (True /
\* False); connect() on a Connected session opens nothing, stays Connected
\* and reports success.  It never raises.
C12_ConnectIdempotent ==
    last.op = "connect"
        => /\ last.outcome = "returned"
           /\ last.frames = <<>>
           /\ last.closes = 0
           /\ device_addr = last.pre.device_addr
           /\ IF last.pre.connected
              THEN /\ last.opens = 0
                   /\ connected
                   /\ port_open = last.pre.port_open
                   /\ last.value = RetTrue
              ELSE /\ last.opens = 1
                   /\ connected = port_open
                   /\ last.value = (IF port_open THEN RetTrue ELSE RetFalse)

\* C12 witness: connect() was called on a session that was Connected.
C12_Witness ==
    /\ last.op = "connect"
    /\ last.pre.connected
    /\ last.pre.port_open
    /\ last.opens = 0
    /\ last.value = RetTrue
    /\ connected

\* C13 (Spec): disconnect() never fails and ends with the session
\* Disconnected and the transport closed; it closes the transport once when
\* the session was Connected and not at all when it was Disconnected, in
\* which case nothing changes.
C13_DisconnectIdempotent ==
    last.op = "disconnect"
        => /\ last.outcome = "returned"
           /\ ~connected
           /\ ~port_open
           /\ last.frames = <<>>
           /\ last.opens = 0
           /\ last.closes = (IF last.pre.connected THEN 1 ELSE 0)
           /\ device_addr = last.pre.device_addr
           /\ client_baud = last.pre.baud
           /\ ~last.pre.connected => port_open = last.pre.port_open

\* C13 witness: disconnect() was called on a session that was Disconnected
\* and closed nothing.
C13_Witness ==
    /\ last.op = "disconnect"
    /\ ~last.pre.connected
    /\ last.closes = 0
    /\ ~connected
    /\ ~port_open

\* the last call was a register read or write that got past the validation
\* of its argument
C14_RegisterOperation ==
    /\ last.op \in ReadOps \cup WriteOps
    /\ last.outcome # "ValueError"

\* C14 as stated (Spec): a register read or write on a Disconnected session
\* sends no frame, does not open the transport, fails with an error and
\* leaves the session Disconnected.
C14_RequiresConnected ==
    (last.op \in ReadOps \cup WriteOps /\ ~last.pre.connected)
        => /\ last.frames = <<>>
           /\ last.opens = 0
           /\ last.outcome # "returned"
           /\ ~connected

\* C14 amended (Spec): a register read or write on a Disconnected session
\* first connects, opening the transport once.  When the open fails no frame
\* is sent, the session stays Disconnected and the call ends without data:
\* with ConnectionError, as IOError from get_all_sensor_values, as None from
\* get_all_sensor_values of tev_aa_simple_gui_v2.  When the open succeeds the
\* session is Connected afterwards.  On a Connected session nothing is opened.
C14_ConnectsFirst ==
    C14_RegisterOperation
        => IF last.pre.connected
           THEN last.opens = 0 /\ connected
           ELSE /\ last.opens = 1
                /\ connected = port_open
                /\ ~connected
                     => /\ last.frames = <<>>
                        /\ IF last.op # "get_all_sensor_values"
                           THEN last.outcome = "ConnectionError"
                           ELSE IF impl = "tev_aa_simple_gui_v2"
                           THEN last.outcome = "returned" /\ last.value = RetNone
                           ELSE last.outcome = "IOError"

\* C14 witness: get_tev_value() on a Disconnected session opened the
\* transport, sent its request and left the session Connected.
C14_Witness ==
    /\ last.op = "get_tev_value"
    /\ ~last.pre.connected
    /\ last.opens = 1
    /\ Len(last.frames) = 1
    /\ last.outcome = "returned"
    /\ connected

\* the exchange of the last call failed: the client call raised, or returned
\* an exception response or an error object (timeout, no or bad response)
C15_ExchangeFailed ==
    /\ last.op \in ReadOps \cup WriteOps
    /\ last.exchange \in {"exception", "io_error", "raised_on_write", "raised_on_read"}

\* C15 (Spec): a register read or write whose exchange failed ends with the
\* session's own error (IOError), never with a returned value and never with
\* the client's exception passed on as it is.
C15_TypedErrorResult ==
    C15_ExchangeFailed => last.outcome = "IOError"

\* C16 (Spec): get_all_sensor_values sends at most one request, a read of 3
\* registers starting at documented address 5003 (5002 on the wire), and ends
\* either with an error or with the record of the 3 words of the response in
\* order: 50, 5, 40 in registers 5003..5005 give (50, 5, 40).
C16_OneReadOfThree ==
    last.op = "get_all_sensor_values"
        => /\ Len(last.frames) <= 1
           /\ \A k \in 1..Len(last.frames) :
                 /\ last.frames[k].fn = 3
                 /\ last.frames[k].start = 5003 - 1
                 /\ last.frames[k].count = 3
           /\ IF last.outcome = "returned"
              THEN /\ Len(last.frames) = 1
                   /\ last.value.kind = "dict"
                   /\ last.value.data \in {<<50, 5, 40>>, <<0, 0, 0>>}
              ELSE last.outcome \in {"IOError", "ConnectionError"}

\* C17 (Spec): no read operation swallows a failure: when its exchange failed
\* it ends with an error, and what a read operation returns is never None
\* and never empty.
C17_NoSwallowedFailure ==
    last.op \in ReadOps
        => /\ last.exchange \in {"exception", "io_error", "raised_on_write",
                                 "raised_on_read"}
                => last.outcome # "returned"
           /\ last.outcome = "returned"
                => (last.value # RetNone /\ last.value.data # <<>>)

\* documented start address of the waveform the last call asked for
C18_DocumentedStart == IF last.op = "get_tev_waveform" THEN 201 ELSE 301

\* C18 (Spec): get_tev_waveform / get_aa_waveform send at most one request, a
\* read of 100 registers from documented address 201 / 301 (200 / 300 on the
\* wire); a returned value is a sequence of exactly 100 words, sample i being
\* the content of register 201+i / 301+i; a response with another number of
\* registers is not returned as a value.
C18_WaveformOfHundred ==
    last.op \in WaveformGetters
        => /\ Len(last.frames) <= 1
           /\ \A k \in 1..Len(last.frames) :
                 /\ last.frames[k].fn = 3
                 /\ last.frames[k].start = C18_DocumentedStart - 1
                 /\ last.frames[k].count = 100
           /\ last.outcome = "returned"
                => /\ Len(last.frames) = 1
                   /\ last.value.kind = "list"
                   /\ Len(last.value.data) = 100
                   /\ \E img \in DeviceImages :
                        \A k \in 1..100 :
                            last.value.data[k] =
                                DeviceWord(img, (C18_DocumentedStart - 1) + (k - 1))

\* C19 (Spec): the caller can tell the error kinds apart: when the last read
\* ended because the device answered with an exception response, the same
\* read ending in a timeout or an invalid frame (the client's error object)
\* would have been reported as a different kind of error, and both are
\* reported as errors.
C19_KindsDistinguishable ==
    (last.op \in ReadOps /\ last.exchange = "exception")
        => /\ last.outcome # "returned"
           /\ \A env \in Env(TRUE) :
                env.outcome = "io_error"
                    => LET r == read_register(impl, [last.pre EXCEPT !.connected = TRUE,
                                                                     !.port_open = TRUE],
                                              OpAddress(last.op), OpCount(last.op), env)
                       IN  r.outcome # "returned" /\ r.outcome # last.outcome

\* C20 (Spec): no implicit retries: a register read or write hands at most one
\* request to the wire, also when its exchange failed, and opens the
\* transport at most once.
C20_NoImplicitRetry ==
    last.op \in ReadOps \cup WriteOps
        => /\ Len(last.frames) <= 1
           /\ last.opens <= 1
           /\ last.exchange = "none" => last.frames = <<>>

\* C20 witness: get_tev_value() got no answer (the client returned its error
\* object) and ended with one request sent.
C20_Witness ==
    /\ last.op = "get_tev_value"
    /\ last.exchange = "io_error"
    /\ Len(last.frames) = 1
    /\ last.outcome # "ConnectionError"

\* C21 (SpecCodec): build_read_registers_request(addr, start, count) returns
\* exactly 8 bytes: addr, 0x03, start high byte, start low byte, count high
\* byte, count low byte, and the two bytes of calculate_crc of the first six
\* (low byte first); 01 03 00 C8 00 64 is followed by C5 DF.
C21_RequestLayout ==
    (origin.kind = "request" /\ tamper.kind = "none" /\ frame # <<>>)
        => /\ Len(frame) = 8
           /\ \A k \in 1..8 : frame[k] \in Byte
           /\ frame[1] = origin.addr
           /\ frame[2] = 3
           /\ frame[3] * 256 + frame[4] = origin.start
           /\ frame[5] * 256 + frame[6] = origin.count
           /\ SubSeq(frame, 7, 8) = calculate_crc(SubSeq(frame, 1, 6))
           /\ SubSeq(frame, 7, 8) = RefCrcBytes(SubSeq(frame, 1, 6))
           /\ SubSeq(frame, 1, 6) = <<1, 3, 0, 200, 0, 100>>
                => SubSeq(frame, 7, 8) = <<197, 223>>

\* C21 witness: build_read_registers_request(1, 200, 100) was built.
C21_Witness ==
    /\ origin.kind = "request"
    /\ origin.addr = 1
    /\ origin.start = 200
    /\ origin.count = 100
    /\ tamper.kind = "none"
    /\ frame = <<1, 3, 0, 200, 0, 100, 197, 223>>

\* C22 (Spec): in every reachable state of a session, from construction on,
\* the active device address is in 1..247 and every frame sent is addressed
\* to a value in 1..247.
C22_AddressInRange ==
    /\ device_addr \in 1..247
    /\ \A k \in 1..Len(last.frames) : last.frames[k].unit \in 1..247

\* the client call of the last call raised: the transport failed under the
\* exchange (the port went away, the write or the read raised)
C23_TransportFailed ==
    /\ last.op \in ReadOps \cup WriteOps
    /\ last.exchange \in {"raised_on_write", "raised_on_read"}

\* a call took the session from Disconnected to Connected only by opening the
\* transport with success
C23_ConnectedByConnect ==
    (~last.pre.connected /\ connected)
        => /\ last.opens = 1
           /\ port_open
           /\ last.op \in {"connect", "__enter__"} \cup ReadOps \cup WriteOps

\* C23 as stated (Spec): the session becomes Connected only through a
\* successful connect, disconnect leaves it Disconnected, and after an
\* unrecoverable I/O failure of an exchange the session is Disconnected.
C23_StateMachine ==
    /\ C23_ConnectedByConnect
    /\ last.op = "disconnect" => ~connected
    /\ C23_TransportFailed => ~connected

\* C23 amended (Spec): the session becomes Connected only through a
\* successful connect, called by the caller, by entering a with-block or by
\* a register operation on a Disconnected session; it leaves Connected only
\* on disconnect, called by the caller or on leaving the with-block, which
\* closes the transport; a failed exchange, the transport failing under
\* it included, leaves the session Connected and the transport open.
C23_LeavesOnlyOnDisconnect ==
    /\ C23_ConnectedByConnect
    /\ last.op = "disconnect" => ~connected /\ ~port_open
    /\ (last.pre.connected /\ ~connected)
         => last.op \in {"disconnect", "__exit__"} /\ last.closes = 1
    /\ C15_ExchangeFailed => connected /\ port_open /\ last.closes = 0

\* C23 witness: the read of get_tev_value() raised in the client on a
\* Connected session, which is Connected afterwards.
C23_Witness ==
    /\ last.op = "get_tev_value"
    /\ last.exchange = "raised_on_read"
    /\ last.pre.connected
    /\ connected

\* C24 (SpecMainFair): every exchange terminates: once the request has been
\* written the caller eventually has a result or an error, also when the
\* device never answers or answers with fewer bytes than expected.
C24_ExchangeTerminates ==
    (main.pc = "written") ~> (main.pc \in {"save_prompt", "returned"})

\* C24 witness: the device never answered, the read came back empty and
\* main() returned 1.
C24_Witness ==
    /\ main.pc = "returned"
    /\ main.device.kind = "silent"
    /\ main.ser.has_timeout
    /\ main.response = <<>>
    /\ main.rc = 1

\* stop() of the DataMonitorThread has been called and has not returned yet
C25_Stopping == gui.pc \in {"wait_data", "close_wait"}

\* stop() has returned: disconnect_sensor or closeEvent goes on to close the
\* session
C25_Stopped == gui.pc = "close" \/ (gui.pc = "close_sensor" /\ gui.data_thread)

\* C25 (SpecGui): cancelling the poller never aborts an exchange in flight:
\* the exchange of the DataMonitorThread that is under way when stop() is
\* called stays on the open port until the thread itself has read its
\* response, and once stop() has returned the thread has ended, has no
\* exchange under way and starts none until a new thread is started.
C25_StopKeepsExchange ==
    /\ []((dpc = "read") <=> (<<"data", 0>> \in outstanding))
    /\ []((C25_Stopping /\ dpc = "read")
            => sensors[dsensor].port_open /\ sensors[dsensor].connected)
    /\ [](C25_Stopped => dpc \in {"none", "done"} /\ <<"data", 0>> \notin outstanding)
    /\ [][/\ (<<"data", 0>> \in outstanding /\ <<"data", 0>> \notin outstanding')
               => dpc = "read" /\ dpc' \in {"sleep", "done"}
          /\ (dpc \in {"none", "done"} /\ dpc' \notin {"none", "done"})
               => gui.pc \in {"start_threads", "params_failed"} /\ dpc' = "started"]_vars

\* C25 witness: stop() was called while the request of the poller was on the
\* wire; the exchange is still under way.
C25_Witness ==
    /\ C25_Stopping
    /\ ~running
    /\ dpc = "read"
    /\ <<"data", 0>> \in outstanding

\* C26 (Spec): set_tev_threshold(v) and set_aa_threshold(v) put no range
\* restriction of their own on v: for every v in 0..65535 the call is not
\* rejected by validation, it reaches the client's write call whenever the
\* session is or gets Connected, and the one request it sends is a write of
\* the single value v to documented register 404 (TEV) or 405 (AA).
C26_ThresholdUnrestricted ==
    (last.op \in {"set_tev_threshold", "set_aa_threshold"} /\ last.arg \in 0..65535)
        => /\ last.outcome # "ValueError"
           /\ last.outcome # "ConnectionError" => last.exchange \in ClientOutcomes
           /\ last.exchange \in ClientOutcomes \ {"raised_on_write"}
                => /\ Len(last.frames) = 1
                   /\ last.frames[1].fn = 16
                   /\ last.frames[1].unit = last.pre.device_addr
                   /\ last.frames[1].start + 1
                        = (IF last.op = "set_tev_threshold" THEN 404 ELSE 405)
                   /\ last.frames[1].count = 1
                   /\ last.frames[1].values = <<last.arg>>

\* C26 witness: set_aa_threshold(65535) was acknowledged.
C26_Witness ==
    /\ last.op = "set_aa_threshold"
    /\ last.arg = 65535
    /\ last.exchange = "response"
    /\ last.outcome = "returned"
    /\ last.value = RetTrue
    /\ Len(last.frames) = 1
    /\ last.frames[1].values = <<65535>>

\* C27 (Spec): the active device address changes only when a
\* set_device_address write was acknowledged by the device; after a
\* validation error, a raised transport error, an exception response or a
\* timeout / no-response result of the client it is the same as before.
C27_AddressOnlyOnAck ==
    /\ device_addr # last.pre.device_addr
         => last.op = "set_device_address" /\ last.exchange = "response"
    /\ (last.op = "set_device_address" /\ last.exchange # "response")
         => device_addr = last.pre.device_addr

\* C28 (Spec): a write operation returns True only when the client returned
\* a normal write acknowledgement; after an exception response, an error
\* object returned for a timeout or a corrupted frame, or a raised exception
\* it ends with an error and never with True.
C28_TrueOnlyOnAck ==
    last.op \in WriteOps
        => /\ (last.outcome = "returned" /\ last.value = RetTrue)
                => last.exchange = "response"
           /\ last.exchange \in ClientOutcomes \ {"response"}
                => last.outcome \notin {"returned"}

\* C29 (Spec): for every baud rate r of the enumerated set, the register
\* value that set_baud_rate(r) puts into its write request is an unsigned
\* 16-bit word.
C29_BaudValueIsWord ==
    (last.op = "set_baud_rate" /\ last.arg \in valid_baudrates
        /\ last.outcome # "ConnectionError")
        => /\ Len(last.handed) = 1
           /\ last.handed[1] \in 0..65535

\* the frame handed to the parser has the length 5 + 2*count asked for and a
\* CRC that is right for its bytes
C30_RightLengthAndCrc ==
    /\ cpc = "parsed"
    /\ Len(frame) = 5 + 2 * expect
    /\ SubSeq(frame, Len(frame) - 1, Len(frame))
         = RefCrcBytes(SubSeq(frame, 1, Len(frame) - 2))

\* C30 (SpecCodec): a response of the right length 5 + 2*count and with a
\* valid CRC is still rejected by parse_read_registers_response, with no
\* register decoded, when its byte-count field differs from 2*count or its
\* function code is neither 0x03 nor 0x83.
C30_HeaderChecked ==
    (C30_RightLengthAndCrc /\ (frame[3] # 2 * expect \/ frame[2] \notin {3, 131}))
        => /\ parsed.none
           /\ parsed.registers = <<>>
           /\ frame[2] \notin {3, 131} => parsed.printed = "function_code"
           /\ frame[2] = 3 => parsed.printed = "byte_count"

\* C30 witness: an answer with function code 0x04 to a read of one register,
\* right in length and CRC, was parsed and rejected for its function code.
C30_Witness ==
    /\ C30_RightLengthAndCrc
    /\ tamper.kind = "function"
    /\ frame[2] = 4
    /\ expect = 1
    /\ frame[3] = 2
    /\ parsed.none
    /\ parsed.printed = "function_code"

\* the DataMonitorThread has left its loop on an error it reported while the
\* GUI shows the session as connected and keeps the thread's handle
C31_PollerStoppedOnError ==
    /\ gui.pc = "idle"
    /\ gui.sensor # 0
    /\ gui.data_thread
    /\ sensors[gui.sensor].connected
    /\ dpc = "done"

\* C31 (SpecGui): when a poller has reported a connect error or timeouts,
\* the GUI tears the session down: it never stays in the connected state
\* with a poller that such an error has stopped, unless the report is still
\* waiting for handle_error.
C31_TeardownOnError ==
    C31_PollerStoppedOnError
        => \E k \in 1..Len(events) : events[k] \in {"connect", "other"}

\* C32 (SpecGuiFair): stop() on a started poller thread always eventually
\* returns, whatever the interleaving of stop() (running = False, then
\* wait()) with the start of run() (running = True).
C32_StopReturns ==
    (gui.pc = "wait_data") ~> (gui.pc = "close")

\* disconnect_sensor() has returned (self.sensor = None) and the user has
\* not connected again
C33_Disconnected == gui.pc = "idle" /\ gui.sensor = 0

\* C33 (SpecGui): after disconnect_sensor() has returned the transport is
\* closed and stays closed until the user connects again: no thread started
\* before the disconnect reopens it through the connect implied by a read.
C33_StaysClosed ==
    C33_Disconnected
        => \A i \in 1..Len(sensors) : ~sensors[i].port_open /\ ~sensors[i].connected

\* the getter that reads the register a setter writes
C34_GetterOf(op) ==
    CASE op = "set_device_address" -> "get_device_address"
      [] op = "set_baud_rate" -> "get_baud_rate"
      [] op = "set_tev_threshold" -> "get_tev_threshold"
      [] op = "set_aa_threshold" -> "get_aa_threshold"

\* C34 (SpecRoundTrip): against a device that stores what is written and
\* answers reads from the same register file, the getter called next after
\* a setter that succeeded with v returns v, in every implementation of the
\* session.
C34_RoundTrip ==
    [][\A op \in WriteOps :
         (last.op = op /\ last.outcome = "returned" /\ last.value = RetTrue
            /\ last'.op = C34_GetterOf(op))
         => (last'.outcome = "returned" /\ last'.value = RetInt(last.arg))]_vars

\* C35 (Spec): used as a context manager, the session is Disconnected and
\* the transport closed once the with-block has been left, whether its body
\* ended normally or raised; entering the block does not raise when the
\* connect fails, and leaves the session Disconnected for the body.
C35_ContextManager ==
    /\ last.op = "__exit__"
         => /\ ~connected
            /\ ~port_open
            /\ last.outcome = "returned"
            /\ last.closes = (IF last.pre.connected THEN 1 ELSE 0)
    /\ last.op = "__enter__"
         => /\ last.outcome = "returned"
            /\ last.frames = <<>>
            /\ connected = port_open
            /\ last.pre.connected => connected

\* C35 witness: the body raised on a Connected session and the block was
\* left: the session is Disconnected and the port closed.
C35_Witness ==
    /\ last.op = "__exit__"
    /\ last.arg = 1
    /\ last.pre.connected
    /\ last.closes = 1
    /\ ~connected
    /\ ~port_open

\* C36 (SpecMain): in main(), once the serial port has been opened it is
\* closed on every path that leaves main: normal completion, empty
\* response, parse failure, and any exception raised while writing,
\* reading, parsing or saving.
C36_PortClosedOnReturn ==
    (main.pc = "returned" /\ main.ser.baudrate # 0)
        => ~main.ser.open /\ main.closes = 1

\* C37 (SpecCodec): parse_read_registers_response does not look at the
\* device-address byte: for every accepted response, the response with
\* another first byte and the CRC recomputed for it is accepted too and
\* decodes to the same register list.
C37_AddressNotChecked ==
    (cpc = "parsed" /\ ~parsed.none)
        => \A a \in OtherAddrs \cup Addrs :
             parse_read_registers_response(Readdressed(frame, a), expect) = parsed

\* C37 witness: the answer to device 1 came from address 2, with a CRC right
\* for it, and was accepted with the registers 0x0102, 0xFFFF it carries.
C37_Witness ==
    /\ cpc = "parsed"
    /\ tamper.kind = "address"
    /\ origin.addr = 1
    /\ frame[1] = 2
    /\ origin.values = <<258, 65535>>
    /\ ~parsed.none
    /\ parsed.registers = origin.values

====
